---- MODULE Spec2Model ----
(***************************************************************************)
(* A model of lexicodec (src/src/codec.ts, src/src/compare.ts): the        *)
(* prefix-byte codec whose encoded strings sort like the values.           *)
(*                                                                         *)
(* A JavaScript string is a sequence of code units, modelled as a sequence *)
(* of integers.  A value is a record [t, s, xs, p] of uniform shape:       *)
(*   t  - the variant: "null" "bool" "num" "str" "arr" "obj" "min" "max"  *)
(*        "undef" (undefined, matched by no built-in encoding) "error"     *)
(*   s  - scalar payload: <<0>>/<<1>> for false/true, <<n>> for a number,  *)
(*        the code units of a string, the error code of an error           *)
(*   xs - the elements of an array; for an object its Object.entries(),    *)
(*        a sequence of two-element arrays [key, value] in insertion order *)
(*   p  - <<>>, or <<v>> for an object whose prototype was replaced by the *)
(*        object v                                                         *)
(***************************************************************************)
EXTENDS Integers, Sequences, FiniteSets, TLC

VARIABLES
    encodings,  \* Codec.encodings as declared by the caller: <<[key, enc]>>
    built,      \* outcome of the Codec constructor: "ok" or "throw"
    a, b,       \* the values handed to encode / compare
    same,       \* TRUE when a and b are one and the same reference
    shared,     \* TRUE when the equal objects that a and b hold at the same
                \* position are one and the same reference
    str,        \* the string handed to decode
    pc,         \* which operation has run
    encA, encB, \* results of Codec.encode(a), Codec.encode(b)
    cmp,        \* result of Codec.compare(a, b)
    dec         \* result of Codec.decode(str)

vars == <<encodings, built, a, b, same, shared, str, pc, encA, encB, cmp, dec>>

(***************************************************************************)
(* Code units that matter to the codec.                                    *)
(***************************************************************************)
NUL == 0         \* "\x00": frame terminator, MIN prefix
ESC == 1         \* "\x01": escape byte
PMin == 0
PNull == 98      \* "b"
PObject == 99    \* "c"
PArray == 100    \* "d"
PNumber == 101   \* "e"
PString == 102   \* "f"
PBoolean == 103  \* "g"
PMax == 255      \* "\xff"
ChA == 65        \* "A", an ordinary content byte, registered by no codec
Ch1 == 49        \* "1", a digit: an integer-like property key

\* JSON.stringify(true), JSON.stringify(false)
TrueText == <<116, 114, 117, 101>>
FalseText == <<102, 97, 108, 115, 101>>

(***************************************************************************)
(* Values.                                                                 *)
(***************************************************************************)
Mk(t, s, xs) == [t |-> t, s |-> s, xs |-> xs, p |-> <<>>]
VNull == Mk("null", <<>>, <<>>)
VBool(x) == Mk("bool", <<x>>, <<>>)
VNum(n) == Mk("num", <<n>>, <<>>)
VStr(s) == Mk("str", s, <<>>)
VArr(xs) == Mk("arr", <<>>, xs)
VObj(entries) == Mk("obj", <<>>, entries)
\* An object whose prototype is no longer Object.prototype carries a mark
\* in s: NullProto (prototype null) or OtherProto (some other object, held
\* in p).
NullProto == <<0>>
OtherProto == <<1>>
\* The property key "__proto__".
ProtoKey == <<95, 95, 112, 114, 111, 116, 111, 95, 95>>
MIN == Mk("min", <<>>, <<>>)
MAX == Mk("max", <<>>, <<>>)
VUndef == Mk("undef", <<>>, <<>>)
\* The variants that are objects, compared by reference.
RefTypes == {"arr", "obj", "date"}

\* Thrown errors, by the throw site.
ErrMissing == 1   \* Codec: new Error(`Missing encoding for value: ...`)
ErrSyntax == 2    \* JSON.parse: SyntaxError
ErrType == 3      \* destructuring a value that is not iterable, or a property
                  \* key that cannot be converted to a string: TypeError
VErr(code) == Mk("error", <<code>>, <<>>)
IsErr(v) == v.t = "error"

\* An encode result is a string, or EncErr when encode threw.
EncErr == <<-1>>
\* A compare result is -1, 0, 1, or CmpErr when compare threw.
CmpErr == 2

(***************************************************************************)
(* src/src/compare.ts: compare(a, b) with JavaScript's > and < on two      *)
(* strings, two numbers or two booleans.  Payloads are sequences: strings  *)
(* compare code unit by code unit, a proper prefix being smaller; a number *)
(* n is <<n>> and a boolean <<0>> or <<1>>.                                *)
(***************************************************************************)
RECURSIVE Less(_, _)
Less(x, y) ==
    IF y = <<>> THEN FALSE
    ELSE IF x = <<>> THEN TRUE
    ELSE IF Head(x) # Head(y) THEN Head(x) < Head(y)
    ELSE Less(Tail(x), Tail(y))

compare(x, y) ==
    IF Less(y, x) THEN 1
    ELSE IF Less(x, y) THEN -1
    ELSE 0

(***************************************************************************)
(* String.prototype.replace(/pat/g, rep) for a literal pattern: leftmost,  *)
(* non-overlapping matches.                                                *)
(***************************************************************************)
RECURSIVE ReplaceAll(_, _, _)
ReplaceAll(s, pat, rep) ==
    IF Len(s) < Len(pat) THEN s
    ELSE IF SubSeq(s, 1, Len(pat)) = pat
         THEN rep \o ReplaceAll(SubSeq(s, Len(pat) + 1, Len(s)), pat, rep)
         ELSE <<Head(s)>> \o ReplaceAll(Tail(s), pat, rep)

\* Mutant: the escape byte itself is left unescaped.
EscapeNulOnly(encoded) ==
    ReplaceAll(encoded, <<NUL>>, <<ESC, NUL>>)

\* Mutant: the two replacements in the other order, A -> BA, then B -> BB.
EscapeNulFirst(encoded) ==
    ReplaceAll(ReplaceAll(encoded, <<NUL>>, <<ESC, NUL>>), <<ESC>>, <<ESC, ESC>>)

\* codec.ts 52-56: B -> BB, then A -> BA
Escape(encoded) ==
    ReplaceAll(ReplaceAll(encoded, <<ESC>>, <<ESC, ESC>>), <<NUL>>, <<ESC, NUL>>)

\* codec.ts 80-84: BB -> B, then BA -> A
Unescape(escaped) ==
    ReplaceAll(ReplaceAll(escaped, <<ESC, ESC>>, <<ESC>>), <<ESC, NUL>>, <<NUL>>)

(***************************************************************************)
(* The ordered number primitive elen (an npm dependency, not part of the   *)
(* repository).  Modelled from its contract: injective, printable output,  *)
(* x < y iff encode(x) < encode(y), decode the inverse.  Sign byte "<",    *)
(* "=" or ">" followed by a digit that grows with the number.              *)
(***************************************************************************)
ElenEncode(n) ==
    IF n < 0 THEN <<60, 57 + n>>
    ELSE IF n = 0 THEN <<61>>
    ELSE <<62, 48 + n>>

ElenDecode(s) ==
    IF s = <<61>> THEN 0
    ELSE IF Head(s) = 60 THEN s[2] - 57
    ELSE s[2] - 48

(***************************************************************************)
(* JSON.parse on the texts the model can hand to it: "true" and "false"    *)
(* parse; any other text over the model's code units (no digits, quotes,   *)
(* brackets, white space or "n") is a SyntaxError.                         *)
(***************************************************************************)
JSONParse(s) ==
    IF s = TrueText THEN VBool(1)
    ELSE IF s = FalseText THEN VBool(0)
    ELSE VErr(ErrSyntax)

JSONStringify(v) == IF v.s = <<1>> THEN TrueText ELSE FalseText

(***************************************************************************)
(* Object.entries(this.encodings): own property keys in ECMAScript order,  *)
(* integer-like keys ("0", "7", "42") first in ascending numeric order,    *)
(* then the other string keys in the order the caller declared them.       *)
(***************************************************************************)
IsDigit(c) == c >= 48 /\ c <= 57

IsIndexKey(k) ==
    /\ k # <<>>
    /\ \A i \in 1..Len(k) : IsDigit(k[i])
    /\ (Len(k) > 1 => k[1] # 48)

RECURSIVE IndexValue(_)
IndexValue(k) ==
    IF k = <<>> THEN 0 ELSE 10 * IndexValue(SubSeq(k, 1, Len(k) - 1)) + (k[Len(k)] - 48)

RECURSIVE SelectEntries(_, _)
SelectEntries(seq, wantIndex) ==
    IF seq = <<>> THEN <<>>
    ELSE IF IsIndexKey(Head(seq).key) = wantIndex
         THEN <<Head(seq)>> \o SelectEntries(Tail(seq), wantIndex)
         ELSE SelectEntries(Tail(seq), wantIndex)

RECURSIVE InsertByIndex(_, _)
InsertByIndex(sorted, e) ==
    IF sorted = <<>> THEN <<e>>
    ELSE IF IndexValue(e.key) < IndexValue(Head(sorted).key)
         THEN <<e>> \o sorted
         ELSE <<Head(sorted)>> \o InsertByIndex(Tail(sorted), e)

RECURSIVE SortByIndex(_)
SortByIndex(seq) ==
    IF seq = <<>> THEN <<>>
    ELSE InsertByIndex(SortByIndex(SubSeq(seq, 1, Len(seq) - 1)), seq[Len(seq)])

ObjectEntries(reg) ==
    SortByIndex(SelectEntries(reg, TRUE)) \o SelectEntries(reg, FALSE)

(***************************************************************************)
(* Object.entries(value).sort(([k1], [k2]) => compare(k1, k2)): a stable   *)
(* sort of the [key, value] pairs by key.                                  *)
(***************************************************************************)
RECURSIVE InsertEntry(_, _)
InsertEntry(sorted, e) ==
    IF sorted = <<>> THEN <<e>>
    ELSE IF compare(e.xs[1].s, Head(sorted).xs[1].s) < 0
         THEN <<e>> \o sorted
         ELSE <<Head(sorted)>> \o InsertEntry(Tail(sorted), e)

\* Mutant: the entries are left in insertion order.
SortEntriesNone(entries) == entries

RECURSIVE SortEntries(_)
SortEntries(entries) ==
    IF entries = <<>> THEN <<>>
    ELSE InsertEntry(SortEntries(SubSeq(entries, 1, Len(entries) - 1)),
                     entries[Len(entries)])

\* codec.ts 103-111
RECURSIVE flatten(_)
flatten(array) ==
    IF array = <<>> THEN <<>> ELSE Head(array).xs \o flatten(Tail(array))

\* codec.ts 113-122, with size = 2
RECURSIVE chunk(_)
chunk(array) ==
    IF array = <<>> THEN <<>>
    ELSE IF Len(array) = 1 THEN <<array>>
    ELSE <<SubSeq(array, 1, 2)>> \o chunk(SubSeq(array, 3, Len(array)))

(***************************************************************************)
(* The match predicates of the built-in encodings.                         *)
(***************************************************************************)
Match(enc, v) ==
    CASE enc = "Min" -> v = MIN
      [] enc = "Null" -> v.t = "null"
      [] enc = "Boolean" -> v.t = "bool"
      [] enc = "String" -> v.t = "str"
      [] enc = "Number" -> v.t = "num"
      [] enc = "Array" -> v.t = "arr"
      [] enc = "Object" -> v.t = "obj" /\ v.s = <<>>
      [] enc = "ObjectLegacy" -> v.t = "obj" /\ v.s = <<>>
      [] enc = "Max" -> v = MAX
      [] OTHER -> FALSE

\* The first entry, in Object.entries order, whose encoding matches v;
\* <<>> when none does.
RECURSIVE FirstMatch(_, _)
FirstMatch(entries, v) ==
    IF entries = <<>> THEN <<>>
    ELSE IF Match(Head(entries).enc, v) THEN <<Head(entries)>>
    ELSE FirstMatch(Tail(entries), v)

(***************************************************************************)
(* Codec.encode and the encode functions of the encodings.                 *)
(***************************************************************************)
RECURSIVE Encode(_, _)
RECURSIVE ArrayEncode(_, _)
RECURSIVE EncodingEncode(_, _, _)

\* codec.ts 47-59: ArrayEncoding.encode
ArrayEncode(reg, array) ==
    IF array = <<>> THEN <<>>
    ELSE LET encoded == Encode(reg, Head(array))
             rest == ArrayEncode(reg, Tail(array))
         IN IF encoded = EncErr \/ rest = EncErr THEN EncErr
            ELSE Escape(encoded) \o <<NUL>> \o rest

\* codec.ts 129-133: ObjectEncoding.encode
ObjectEncode(reg, value) ==
    ArrayEncode(reg, flatten(SortEntries(value.xs)))

\* Mutant: the paired form keeps the insertion order of the entries.
ObjectLegacyEncodeUnsorted(reg, value) ==
    ArrayEncode(reg, value.xs)

\* codec.ts 166-169: ObjectLegacyEncoding.encode
ObjectLegacyEncode(reg, value) ==
    ArrayEncode(reg, SortEntries(value.xs))

EncodingEncode(reg, enc, v) ==
    CASE enc = "Boolean" -> JSONStringify(v)
      [] enc = "String" -> v.s
      [] enc = "Number" -> ElenEncode(v.s[1])
      [] enc = "Array" -> ArrayEncode(reg, v.xs)
      [] enc = "Object" -> ObjectEncode(reg, v)
      [] enc = "ObjectLegacy" -> ObjectLegacyEncode(reg, v)
      [] OTHER -> <<>>

\* Mutant: a value no encoding matches encodes as the empty string.
EncodeLenient(reg, v) ==
    LET m == FirstMatch(ObjectEntries(reg), v)
    IN IF m = <<>> THEN <<>>
       ELSE LET body == EncodingEncode(reg, m[1].enc, v)
            IN IF body = EncErr THEN EncErr ELSE m[1].key \o body

\* codec.ts 206-212: Codec.encode
Encode(reg, v) ==
    LET m == FirstMatch(ObjectEntries(reg), v)
    IN IF m = <<>> THEN EncErr
       ELSE LET body == EncodingEncode(reg, m[1].enc, v)
            IN IF body = EncErr THEN EncErr ELSE m[1].key \o body

(***************************************************************************)
(* Codec.compare and the compare functions of the encodings.               *)
(***************************************************************************)
\* a === b: by value for primitives and symbols, by reference for arrays
\* and objects.
StrictEq(x, y, sameRef) ==
    IF x.t \in RefTypes THEN sameRef /\ x = y ELSE x = y

RECURSIVE Compare(_, _, _, _, _)
RECURSIVE ArrayCompare(_, _, _, _)
RECURSIVE ObjectCompareLoop(_, _, _, _)

\* Mutant: the last differing component decides, not the first.
ArrayCompareFromEnd(reg, xs, ys, parts) ==
    IF xs = <<>> \/ ys = <<>> THEN compare(<<Len(xs)>>, <<Len(ys)>>)
    ELSE LET rest == ArrayCompare(reg, Tail(xs), Tail(ys), parts)
         IN IF rest # 0 THEN rest
            ELSE Compare(reg, Head(xs), Head(ys), parts, parts)

\* Mutant: the lengths are not compared after the common components.
ArrayCompareNoLength(reg, xs, ys, parts) ==
    IF xs = <<>> \/ ys = <<>> THEN 0
    ELSE LET dir == Compare(reg, Head(xs), Head(ys), parts, parts)
         IN IF dir # 0 THEN dir
            ELSE ArrayCompare(reg, Tail(xs), Tail(ys), parts)

\* codec.ts 91-100: ArrayEncoding.compare.  cmp(a[i], b[i]) is
\* Codec.compare: two components that are one reference compare 0 before
\* any encoding is looked up; parts tells whether equal objects at the same
\* position are one reference.
ArrayCompare(reg, xs, ys, parts) ==
    IF xs = <<>> \/ ys = <<>> THEN compare(<<Len(xs)>>, <<Len(ys)>>)
    ELSE LET dir == Compare(reg, Head(xs), Head(ys), parts, parts)
         IN IF dir # 0 THEN dir
            ELSE ArrayCompare(reg, Tail(xs), Tail(ys), parts)

\* codec.ts 146-157: the loop of ObjectEncoding.compare over sorted entries
ObjectCompareLoop(reg, ae, be, parts) ==
    IF ae = <<>> \/ be = <<>> THEN compare(<<Len(ae)>>, <<Len(be)>>)
    ELSE LET dir == compare(Head(ae).xs[1].s, Head(be).xs[1].s)
         IN IF dir # 0 THEN dir
            ELSE LET dir2 == Compare(reg, Head(ae).xs[2], Head(be).xs[2],
                                     parts, parts)
                 IN IF dir2 # 0 THEN dir2
                    ELSE ObjectCompareLoop(reg, Tail(ae), Tail(be), parts)

\* codec.ts 143-158: ObjectEncoding.compare
ObjectCompare(reg, x, y, parts) ==
    ObjectCompareLoop(reg, SortEntries(x.xs), SortEntries(y.xs), parts)

EncodingCompare(reg, enc, x, y, parts) ==
    CASE enc \in {"Boolean", "String", "Number"} -> compare(x.s, y.s)
      [] enc = "Array" -> ArrayCompare(reg, x.xs, y.xs, parts)
      [] enc \in {"Object", "ObjectLegacy"} -> ObjectCompare(reg, x, y, parts)
      [] OTHER -> 0

\* codec.ts 223-239: Codec.compare.  sameRef: x and y are one reference;
\* parts: so are the equal objects they hold at the same position.
Compare(reg, x, y, sameRef, parts) ==
    IF StrictEq(x, y, sameRef) THEN 0
    ELSE LET ae == FirstMatch(ObjectEntries(reg), x)
             be == FirstMatch(ObjectEntries(reg), y)
         IN IF ae = <<>> \/ be = <<>> THEN CmpErr
            ELSE IF ae[1].key # be[1].key THEN compare(ae[1].key, be[1].key)
            ELSE EncodingCompare(reg, ae[1].enc, x, y, parts)

(***************************************************************************)
(* Codec.decode and the decode functions of the encodings.                 *)
(***************************************************************************)
\* Mutant: the scan for /\x00/g, which takes every NUL for a terminator.
RECURSIVE NextMatchNulOnly(_, _)
NextMatchNulOnly(value, from) ==
    IF from > Len(value) THEN 0
    ELSE IF value[from] = NUL THEN from
    ELSE NextMatchNulOnly(value, from + 1)

\* re.exec(value) for re = /(\x01(\x01|\x00)|\x00)/g: the 1-based index of
\* the leftmost match at or after position from, 0 when there is none.
RECURSIVE NextMatch(_, _)
NextMatch(value, from) ==
    IF from > Len(value) THEN 0
    ELSE IF value[from] = ESC /\ from < Len(value) /\ value[from + 1] \in {ESC, NUL}
         THEN from
    ELSE IF value[from] = NUL THEN from
    ELSE NextMatch(value, from + 1)

\* Own property assignment: replaces the value of an existing key in
\* place, else appends the entry.
RECURSIVE SetEntry(_, _, _)
SetEntry(entries, key, value) ==
    IF entries = <<>> THEN <<VArr(<<key, value>>)>>
    ELSE IF Head(entries).xs[1] = key
         THEN <<VArr(<<key, value>>)>> \o Tail(entries)
         ELSE <<Head(entries)>> \o SetEntry(Tail(entries), key, value)

\* The object has the own property key.
HasOwn(obj, key) == \E i \in 1..Len(obj.xs) : obj.xs[i].xs[1] = key

\* The prototype chain of v ends in Object.prototype (an array's through
\* Array.prototype), not in null.
RECURSIVE InheritsObjectPrototype(_)
InheritsObjectPrototype(v) ==
    IF v.t = "obj" /\ v.s = NullProto THEN FALSE
    ELSE IF v.t = "obj" /\ v.s = OtherProto THEN InheritsObjectPrototype(v.p[1])
    ELSE TRUE

\* The first array on the prototype chain of the object v, <<>> when the
\* chain holds none.
RECURSIVE InheritedArray(_)
InheritedArray(v) ==
    IF v.t # "obj" \/ v.s # OtherProto THEN <<>>
    ELSE IF v.p[1].t = "arr" THEN <<v.p[1]>>
    ELSE InheritedArray(v.p[1])

\* Looking "__proto__" up from v finds the accessor of Object.prototype,
\* not a data property met earlier on the chain and not the end of a chain
\* that stops at null.
RECURSIVE ProtoSetter(_)
ProtoSetter(v) ==
    IF v.t = "obj" /\ HasOwn(v, VStr(ProtoKey)) THEN FALSE
    ELSE IF v.t = "obj" /\ v.s = NullProto THEN FALSE
    ELSE IF v.t = "obj" /\ v.s = OtherProto THEN ProtoSetter(v.p[1])
    ELSE TRUE

\* obj[key] = value (codec.ts 139, 175).  The key "__proto__" runs the
\* setter inherited from Object.prototype: an object or null value replaces
\* the prototype, any other value is ignored, and no own property is
\* created.  Where the chain no longer reaches that setter the assignment
\* creates (or updates) an own property, as it does for every other key.
SetProperty(obj, key, value) ==
    IF key.s = ProtoKey /\ ProtoSetter(obj)
    THEN IF value.t = "null" THEN [obj EXCEPT !.s = NullProto, !.p = <<>>]
         ELSE IF value.t \in RefTypes
              THEN [obj EXCEPT !.s = OtherProto, !.p = <<value>>]
         ELSE obj
    ELSE [obj EXCEPT !.xs = SetEntry(obj.xs, key, value)]

\* The coercion of a property key threw a TypeError.
StringErr == <<-2>>

\* String(v), the coercion of a property key that is not a string.  An
\* array is joined; an object answers with the toString its prototype
\* chain gives it: Array.prototype.toString joins the elements inherited
\* from the first array of the chain, Object.prototype.toString yields
\* "[object Object]", and a chain that stops at null has none, which
\* throws.  (Decoding yields no symbol and no Date; numbers of the model
\* have one digit; no key of the model is named toString, valueOf, join or
\* length or is an array index, so nothing on a chain shadows these.)
RECURSIVE StringOf(_)
RECURSIVE Join(_)
Join(xs) ==
    IF xs = <<>> THEN <<>>
    ELSE LET first == IF Head(xs).t \in {"null", "undef"} THEN <<>>
                      ELSE StringOf(Head(xs))
             rest == IF Len(xs) > 1 THEN Join(Tail(xs)) ELSE <<>>
         IN IF first = StringErr \/ rest = StringErr THEN StringErr
            ELSE first \o (IF Len(xs) > 1 THEN <<44>> \o rest ELSE <<>>)

StringOf(v) ==
    CASE v.t = "str" -> v.s
      [] v.t = "null" -> <<110, 117, 108, 108>>
      [] v.t = "undef" -> <<117, 110, 100, 101, 102, 105, 110, 101, 100>>
      [] v.t = "bool" -> JSONStringify(v)
      [] v.t = "num" -> IF v.s[1] < 0 THEN <<45, 48 - v.s[1]>> ELSE <<48 + v.s[1]>>
      [] v.t = "arr" -> Join(v.xs)
      [] OTHER ->
           IF InheritedArray(v) # <<>> THEN Join(InheritedArray(v)[1].xs)
           ELSE IF InheritsObjectPrototype(v)
                THEN <<91, 111, 98, 106, 101, 99, 116, 32, 79, 98, 106, 101, 99, 116, 93>>
           ELSE StringErr

\* codec.ts 137-141: for (const [key, value] of entries) obj[key] = value;
\* a one-element chunk destructures its value to undefined.
RECURSIVE AssignEntries(_, _)
AssignEntries(obj, entries) ==
    IF entries = <<>> THEN obj
    ELSE LET e == Head(entries)
             value == IF Len(e) > 1 THEN e[2] ELSE VUndef
             key == StringOf(e[1])
         IN IF key = StringErr THEN VErr(ErrType)
            ELSE AssignEntries(SetProperty(obj, VStr(key), value), Tail(entries))

RECURSIVE Decode(_, _)
RECURSIVE ArrayDecodeLoop(_, _, _, _, _)

\* Mutant: a loop that throws when bytes are left after the last frame.
ArrayDecodeLoopStrict(reg, value, lastIndex, start, array) ==
    LET match == NextMatch(value, lastIndex)
    IN IF match = 0
       THEN (IF start <= Len(value) THEN VErr(ErrSyntax) ELSE VArr(array))
       ELSE IF value[match] = ESC
            THEN ArrayDecodeLoop(reg, value, match + 2, start, array)
       ELSE LET escaped == SubSeq(value, start, match - 1)
                decoded == Decode(reg, Unescape(escaped))
            IN IF IsErr(decoded) THEN decoded
               ELSE ArrayDecodeLoop(reg, value, match + 1, match + 1,
                                    Append(array, decoded))

\* codec.ts 69-89: the while loop of ArrayEncoding.decode; lastIndex is
\* re.lastIndex + 1, start is start + 1 (sequences are 1-based).  Yields
\* the array, or the error thrown by the nested decode.
ArrayDecodeLoop(reg, value, lastIndex, start, array) ==
    LET match == NextMatch(value, lastIndex)
    IN IF match = 0 THEN VArr(array)
       ELSE IF value[match] = ESC
            THEN ArrayDecodeLoop(reg, value, match + 2, start, array)
       ELSE LET escaped == SubSeq(value, start, match - 1)
                decoded == Decode(reg, Unescape(escaped))
            IN IF IsErr(decoded) THEN decoded
               ELSE ArrayDecodeLoop(reg, value, match + 1, match + 1,
                                    Append(array, decoded))

\* codec.ts 60-90: ArrayEncoding.decode
ArrayDecode(reg, value) ==
    IF value = <<>> THEN VArr(<<>>)
    ELSE ArrayDecodeLoop(reg, value, 1, 1, <<>>)

\* codec.ts 134-142: ObjectEncoding.decode
ObjectDecode(reg, value) ==
    LET items == ArrayDecode(reg, value)
    IN IF IsErr(items) THEN items
       ELSE AssignEntries(VObj(<<>>), chunk(items.xs))

\* e has an iterator: an array, a string, or an object that inherits the
\* iterator of an array on its prototype chain.
Iterable(e) == e.t \in {"arr", "str"} \/ InheritedArray(e) # <<>>

\* const [key, value] = e: an array yields its first two elements, a
\* string its first two characters, an object with an array on its
\* prototype chain the first two elements it inherits, missing ones
\* undefined; any other decoded value is not iterable.
Destructure(e) ==
    LET items == IF e.t = "arr" THEN e.xs
                 ELSE IF e.t = "str" THEN [i \in 1..Len(e.s) |-> VStr(<<e.s[i]>>)]
                 ELSE InheritedArray(e)[1].xs
    IN << IF Len(items) > 0 THEN items[1] ELSE VUndef,
          IF Len(items) > 1 THEN items[2] ELSE VUndef >>

\* codec.ts 172-175: for (const [key, value] of entries) obj[key] = value
RECURSIVE AssignLegacyEntries(_, _)
AssignLegacyEntries(obj, entries) ==
    IF entries = <<>> THEN obj
    ELSE IF ~Iterable(Head(entries)) THEN VErr(ErrType)
    ELSE LET kv == Destructure(Head(entries))
             key == StringOf(kv[1])
         IN IF key = StringErr THEN VErr(ErrType)
            ELSE AssignLegacyEntries(SetProperty(obj, VStr(key), kv[2]),
                                     Tail(entries))

\* codec.ts 170-177: ObjectLegacyEncoding.decode
ObjectLegacyDecode(reg, value) ==
    LET entries == ArrayDecode(reg, value)
    IN IF IsErr(entries) THEN entries
       ELSE AssignLegacyEntries(VObj(<<>>), entries.xs)

EncodingDecode(reg, enc, rest) ==
    CASE enc = "Boolean" -> JSONParse(rest)
      [] enc = "ObjectLegacy" -> ObjectLegacyDecode(reg, rest)
      [] enc = "String" -> VStr(rest)
      [] enc = "Number" -> VNum(ElenDecode(rest))
      [] enc = "Array" -> ArrayDecode(reg, rest)
      [] enc = "Object" -> ObjectDecode(reg, rest)
      [] OTHER -> VNull

\* The entry registered under the prefix, <<>> when there is none.
RECURSIVE FindPrefix(_, _)
FindPrefix(entries, prefix) ==
    IF entries = <<>> THEN <<>>
    ELSE IF Head(entries).key = prefix THEN <<Head(entries)>>
    ELSE FindPrefix(Tail(entries), prefix)

\* Mutant: an unknown prefix decodes to null.
DecodeLenient(reg, value) ==
    LET m == IF value = <<>> THEN <<>>
             ELSE FindPrefix(ObjectEntries(reg), <<Head(value)>>)
    IN IF m = <<>> THEN VNull
       ELSE EncodingDecode(reg, m[1].enc, Tail(value))

\* codec.ts 214-221: Codec.decode; value[0] of an empty string is
\* undefined, which equals no key.
Decode(reg, value) ==
    LET m == IF value = <<>> THEN <<>>
             ELSE FindPrefix(ObjectEntries(reg), <<Head(value)>>)
    IN IF m = <<>> THEN VErr(ErrMissing)
       ELSE EncodingDecode(reg, m[1].enc, Tail(value))

(***************************************************************************)
(* codec.ts 242-253: the default codec.                                    *)
(***************************************************************************)
Entry(key, enc) == [key |-> key, enc |-> enc]

\* Mutant: the prefixes of numbers and strings are exchanged.
jsonCodecSwapped ==
    << Entry(<<PMin>>, "Min"),
       Entry(<<PNull>>, "Null"),
       Entry(<<PObject>>, "Object"),
       Entry(<<PArray>>, "Array"),
       Entry(<<PNumber>>, "String"),
       Entry(<<PString>>, "Number"),
       Entry(<<PBoolean>>, "Boolean"),
       Entry(<<PMax>>, "Max") >>

\* Mutant: the registry without the two sentinels.
jsonCodecNoSentinels ==
    << Entry(<<PNull>>, "Null"),
       Entry(<<PObject>>, "Object"),
       Entry(<<PArray>>, "Array"),
       Entry(<<PNumber>>, "Number"),
       Entry(<<PString>>, "String"),
       Entry(<<PBoolean>>, "Boolean") >>

\* Mutant: the two sentinels registered under each other's prefix.
jsonCodecSentinelsSwapped ==
    << Entry(<<PMin>>, "Max"),
       Entry(<<PNull>>, "Null"),
       Entry(<<PObject>>, "Object"),
       Entry(<<PArray>>, "Array"),
       Entry(<<PNumber>>, "Number"),
       Entry(<<PString>>, "String"),
       Entry(<<PBoolean>>, "Boolean"),
       Entry(<<PMax>>, "Min") >>

jsonCodec ==
    << Entry(<<PMin>>, "Min"),
       Entry(<<PNull>>, "Null"),
       Entry(<<PObject>>, "Object"),
       Entry(<<PArray>>, "Array"),
       Entry(<<PNumber>>, "Number"),
       Entry(<<PString>>, "String"),
       Entry(<<PBoolean>>, "Boolean"),
       Entry(<<PMax>>, "Max") >>

(***************************************************************************)
(* Bounds of the input universe.                                           *)
(***************************************************************************)
MaxStrLen == 2   \* longest string handed to the codec at the top level
MaxNum == 1      \* numbers range over -MaxNum..MaxNum
MaxArrLen == 2   \* longest array built from Elems
MaxKeys == 2     \* most entries of an object

StrBytes == {NUL, ESC, ChA}

SeqsOver(S, n) == UNION {[1..k -> S] : k \in 0..n}

\* A Date: an object whose prototype is not Object.prototype, matched by
\* no encoding of jsonCodec (as undefined is).
VDate == Mk("date", <<>>, <<>>)

Scalars ==
    {VNull, VBool(0), VBool(1)}
    \cup {VNum(n) : n \in (0 - MaxNum)..MaxNum}
    \cup {VStr(s) : s \in SeqsOver(StrBytes, MaxStrLen)}

Level0 == Scalars \cup {MIN, MAX, VUndef, VDate}

\* Elements of the longer arrays.
Elems == {VStr(<<>>), VStr(<<NUL>>), VStr(<<ESC>>), MIN}

Arrays == {VArr(xs) : xs \in SeqsOver(Elems, MaxArrLen)}

\* Objects: every insertion order of every choice of distinct keys, and
\* objects with the own property "__proto__" (as JSON.parse creates it).
ObjKeys == {<<NUL>>, <<ChA>>}
ObjVals == {VNull, VStr(<<NUL>>)}

KeySeqs == {ks \in SeqsOver(ObjKeys, MaxKeys) :
               \A i, j \in 1..Len(ks) : i # j => ks[i] # ks[j]}

Objects ==
    UNION {{VObj([i \in 1..Len(ks) |-> VArr(<<VStr(ks[i]), vs[i]>>)]) :
               vs \in [1..Len(ks) -> ObjVals]} : ks \in KeySeqs}
    \cup {VObj(<<VArr(<<VStr(k), VUndef>>)>>) : k \in ObjKeys}
    \cup {VObj(<<VArr(<<VStr(ProtoKey), v>>)>>) : v \in ObjVals}

Wrap(S) == {VArr(<<x>>) : x \in S}

Flat == Level0 \cup Arrays \cup Objects

Values == Flat \cup Wrap(Flat) \cup Wrap(Wrap(Level0))

\* The values compare visits inside v: the elements of an array, the
\* values of the sorted entries of an object.
Components(v) ==
    IF v.t = "obj"
    THEN [i \in 1..Len(v.xs) |-> SortEntries(v.xs)[i].xs[2]]
    ELSE v.xs

\* x and y hold two equal objects at one position: the caller may have put
\* one and the same reference there.
RECURSIVE SharableParts(_, _)
SharableParts(x, y) ==
    /\ x.t = y.t
    /\ x.t \in {"arr", "obj"}
    /\ \E i \in 1..Len(x.xs) :
          /\ i <= Len(y.xs)
          /\ LET xi == Components(x)[i]
                 yi == Components(y)[i]
             IN \/ xi.t \in RefTypes /\ xi = yi
                \/ SharableParts(xi, yi)

\* The ways the parts of x and y can be shared: all of them when x and y
\* are one reference, either way when they hold equal objects.
SharedChoices(x, y, sameRef) ==
    IF sameRef THEN {TRUE}
    ELSE IF SharableParts(x, y) THEN BOOLEAN
    ELSE {FALSE}

(***************************************************************************)
(* The state machine: a caller holding the default codec encodes two       *)
(* values, compares them and decodes the first encoding.                   *)
(***************************************************************************)
Init ==
    /\ encodings = jsonCodec
    /\ built = "ok"
    /\ a \in Values
    /\ b \in Values
    /\ same \in IF a = b /\ a.t \in RefTypes THEN BOOLEAN ELSE {a = b}
    /\ shared \in SharedChoices(a, b, same)
    /\ str = <<>>
    /\ pc = "ready"
    /\ encA = <<>>
    /\ encB = <<>>
    /\ cmp = 0
    /\ dec = VNull

\* jsonCodec.encode(a), jsonCodec.encode(b)
CallEncode ==
    /\ pc = "ready"
    /\ encA' = Encode(encodings, a)
    /\ encB' = Encode(encodings, b)
    /\ pc' = "encoded"
    /\ UNCHANGED <<encodings, built, a, b, same, shared, str, cmp, dec>>

\* jsonCodec.compare(a, b)
CallCompare ==
    /\ pc = "encoded"
    /\ cmp' = Compare(encodings, a, b, same, shared)
    /\ pc' = "compared"
    /\ UNCHANGED <<encodings, built, a, b, same, shared, str, encA, encB, dec>>

\* jsonCodec.decode(jsonCodec.encode(a))
CallDecode ==
    /\ pc = "compared"
    /\ encA # EncErr
    /\ str' = encA
    /\ dec' = Decode(encodings, encA)
    /\ pc' = "decoded"
    /\ UNCHANGED <<encodings, built, a, b, same, shared, encA, encB, cmp>>

Next == CallEncode \/ CallCompare \/ CallDecode

Spec == Init /\ [][Next]_vars

(***************************************************************************)
(* A caller building its own codec: new Codec(encodings), then the same    *)
(* calls.  Keys are one letter, one digit, or malformed (empty, two        *)
(* characters); ObjectEncoding and ObjectLegacyEncoding match the same     *)
(* values.                                                                 *)
(***************************************************************************)
MaxRegLen == 3   \* most entries of a caller's registry

RegKeys == {<<PNull>>, <<PObject>>, <<Ch1>>, <<>>, <<PNull, PObject>>}
RegEncodings == {"String", "Object", "ObjectLegacy"}

Registries ==
    {reg \in SeqsOver([key : RegKeys, enc : RegEncodings], MaxRegLen) :
        \A i, j \in 1..Len(reg) : i # j => reg[i].key # reg[j].key}

RegValues ==
    {VStr(<<>>), VObj(<<>>), VObj(<<VArr(<<VStr(<<ChA>>), VStr(<<>>)>>)>>)}

InitReg ==
    /\ encodings \in Registries
    /\ built = "new"
    /\ a \in RegValues
    /\ b \in RegValues
    /\ same \in IF a = b /\ a.t \in RefTypes THEN BOOLEAN ELSE {a = b}
    /\ shared \in SharedChoices(a, b, same)
    /\ str = <<>>
    /\ pc = "new"
    /\ encA = <<>>
    /\ encB = <<>>
    /\ cmp = 0
    /\ dec = VNull

\* A constructor that rejects only the keys longer than one character.
ConstructRejectLong ==
    /\ pc = "new"
    /\ IF \E i \in 1..Len(encodings) : Len(encodings[i].key) > 1
       THEN built' = "throw" /\ pc' = "failed"
       ELSE built' = "ok" /\ pc' = "ready"
    /\ UNCHANGED <<encodings, a, b, same, shared, str, encA, encB, cmp, dec>>

\* codec.ts 200-204: the constructor throws on a key that is not one
\* character long.
Construct ==
    /\ pc = "new"
    /\ IF \E i \in 1..Len(encodings) : Len(encodings[i].key) # 1
       THEN built' = "throw" /\ pc' = "failed"
       ELSE built' = "ok" /\ pc' = "ready"
    /\ UNCHANGED <<encodings, a, b, same, shared, str, encA, encB, cmp, dec>>

NextReg == Construct \/ CallEncode \/ CallCompare \/ CallDecode

SpecReg == InitReg /\ [][NextReg]_vars

(***************************************************************************)
(* A caller decoding an arbitrary string with the default codec.  The      *)
(* strings are over the registered prefixes (but the number prefix: what   *)
(* elen.decode makes of a string elen.encode never produced is not known), *)
(* the escape byte and one unregistered byte.                              *)
(***************************************************************************)
MaxInputLen == 4   \* longest string handed to decode

DecBytes == {NUL, ESC, PNull, PObject, PArray, PString, PBoolean, PMax, ChA}

InitDec ==
    /\ encodings = jsonCodec
    /\ built = "ok"
    /\ a = VNull
    /\ b = VNull
    /\ same = TRUE
    /\ shared = TRUE
    /\ str \in SeqsOver(DecBytes, MaxInputLen)
    /\ pc = "input"
    /\ encA = <<>>
    /\ encB = <<>>
    /\ cmp = 0
    /\ dec = VNull

\* jsonCodec.decode(str)
DecodeString ==
    /\ pc = "input"
    /\ dec' = Decode(encodings, str)
    /\ pc' = "parsed"
    /\ UNCHANGED <<encodings, built, a, b, same, shared, str, encA, encB, cmp>>

NextDec == DecodeString

SpecDec == InitDec /\ [][NextDec]_vars

(***************************************************************************)
(* A caller ordering plain objects with a codec of either object form:     *)
(* jsonCodec, or jsonCodec with ObjectLegacyEncoding under the object      *)
(* prefix.  Keys are prefixes of one another or hold the escape byte; the  *)
(* values are a string holding NUL or a nested object holding ESC.          *)
(***************************************************************************)
jsonCodecLegacy ==
    [i \in 1..Len(jsonCodec) |->
        IF jsonCodec[i].enc = "Object"
        THEN Entry(jsonCodec[i].key, "ObjectLegacy")
        ELSE jsonCodec[i]]

PairKeys == {<<ChA>>, <<ChA, NUL>>, <<ESC>>}
PairVals == {VStr(<<NUL>>), VObj(<<VArr(<<VStr(<<ChA>>), VStr(<<ESC>>)>>)>>)}

PairKeySeqs == {ks \in SeqsOver(PairKeys, MaxKeys) :
                   \A i, j \in 1..Len(ks) : i # j => ks[i] # ks[j]}

PairObjects ==
    UNION {{VObj([i \in 1..Len(ks) |-> VArr(<<VStr(ks[i]), vs[i]>>)]) :
               vs \in [1..Len(ks) -> PairVals]} : ks \in PairKeySeqs}

InitObj ==
    /\ encodings \in {jsonCodec, jsonCodecLegacy}
    /\ built = "ok"
    /\ a \in PairObjects
    /\ b \in PairObjects
    /\ same \in IF a = b THEN BOOLEAN ELSE {FALSE}
    /\ shared \in SharedChoices(a, b, same)
    /\ str = <<>>
    /\ pc = "ready"
    /\ encA = <<>>
    /\ encB = <<>>
    /\ cmp = 0
    /\ dec = VNull

SpecObj == InitObj /\ [][Next]_vars

(***************************************************************************)
(* A caller building the two bounds of a range scan over tuples: the       *)
(* tuple prefix t closed by MIN or MAX, against a stored tuple that        *)
(* extends t by a value v and further elements.                            *)
(***************************************************************************)
MaxPrefixLen == 1   \* longest tuple prefix t
MaxRestLen == 1     \* most elements after v

RangePrefixElems == {VStr(<<NUL>>), MIN, MAX}
RangeRestElems == {VStr(<<ESC>>), MIN, MAX}
RangeVals ==
    Scalars \cup {VArr(<<>>), VArr(<<MIN>>), VArr(<<MAX>>), VObj(<<>>)}

InitRange ==
    /\ encodings = jsonCodec
    /\ built = "ok"
    /\ \E t \in SeqsOver(RangePrefixElems, MaxPrefixLen),
          bound \in {MIN, MAX},
          v \in RangeVals,
          rest \in SeqsOver(RangeRestElems, MaxRestLen) :
            /\ a = VArr(t \o <<bound>>)
            /\ b = VArr(t \o <<v>> \o rest)
    /\ same = FALSE
    /\ shared \in SharedChoices(a, b, same)
    /\ str = <<>>
    /\ pc = "ready"
    /\ encA = <<>>
    /\ encB = <<>>
    /\ cmp = 0
    /\ dec = VNull

SpecRange == InitRange /\ [][Next]_vars

(***************************************************************************)
(* Vocabulary of the properties.                                           *)
(***************************************************************************)
\* v is built from null, booleans, numbers, strings, arrays and plain
\* objects only: no sentinel and no unsupported value at any depth.
RECURSIVE IsJson(_)
IsJson(v) ==
    /\ v.t \in {"null", "bool", "num", "str", "arr", "obj"}
    /\ \A i \in 1..Len(v.xs) : IsJson(v.xs[i])

\* v holds, at some depth, a value no encoding of jsonCodec matches.
RECURSIVE HasUnsupported(_)
HasUnsupported(v) ==
    \/ v.t \in {"undef", "date"}
    \/ \E i \in 1..Len(v.xs) : HasUnsupported(v.xs[i])

\* assert.deepStrictEqual: objects are equal when they hold the same
\* entries, whatever the insertion order.
RECURSIVE DeepEqual(_, _)
DeepEqual(x, y) ==
    /\ x.t = y.t
    /\ x.s = y.s
    /\ Len(x.xs) = Len(y.xs)
    /\ IF x.t = "obj"
       THEN \A i \in 1..Len(x.xs) : \E j \in 1..Len(y.xs) :
                /\ x.xs[i].xs[1] = y.xs[j].xs[1]
                /\ DeepEqual(x.xs[i].xs[2], y.xs[j].xs[2])
       ELSE \A i \in 1..Len(x.xs) : DeepEqual(x.xs[i], y.xs[i])

\* sign(byteCompare(x, y)) of two encoded strings, written out
\* independently of compare.ts.
ByteOrder(x, y) ==
    LET n == IF Len(x) < Len(y) THEN Len(x) ELSE Len(y)
        diff == {i \in 1..n : x[i] # y[i]}
    IN IF diff = {}
       THEN (IF Len(x) < Len(y) THEN -1 ELSE IF Len(x) > Len(y) THEN 1 ELSE 0)
       ELSE LET i == CHOOSE k \in diff : \A m \in diff : k <= m
            IN IF x[i] < y[i] THEN -1 ELSE 1

Compared == pc \in {"compared", "decoded"}
Encoded == pc \in {"encoded", "compared", "decoded"}

\* C1: for non-sentinel JSON values a and b, jsonCodec.compare(a, b) is the
\* sign of the byte-wise comparison of jsonCodec.encode(a) and
\* jsonCodec.encode(b).
OrderAgreement ==
    (Compared /\ IsJson(a) /\ IsJson(b)) => cmp = ByteOrder(encA, encB)

OrderAgreementWitness ==
    /\ Compared /\ IsJson(a) /\ IsJson(b)
    /\ a = VArr(<<VStr(<<>>)>>)
    /\ b = VArr(<<VStr(<<NUL>>)>>)
    /\ cmp = -1

\* C2: decoding the encoding of a non-sentinel JSON value gives back a
\* value deeply equal to it.
RoundTrip ==
    (pc = "decoded" /\ IsJson(a)) => DeepEqual(dec, a)


\* The first non-zero comparison of the parallel components, 0 if none.
\* Equal components are one reference or two, as parts tells.
ComponentWise(reg, xs, ys, parts) ==
    LET diff == {i \in 1..Len(xs) :
                    Compare(reg, xs[i], ys[i], parts, parts) # 0}
    IN IF diff = {} THEN 0
       ELSE LET first == CHOOSE k \in diff : \A m \in diff : k <= m
            IN Compare(reg, xs[first], ys[first], parts, parts)

\* C3: for two arrays of equal length, jsonCodec.compare is the first
\* non-zero comparison of their components, and 0 when there is none.
TupleComponentWise ==
    (Compared /\ a.t = "arr" /\ b.t = "arr" /\ Len(a.xs) = Len(b.xs))
        => cmp = ComponentWise(encodings, a.xs, b.xs, shared)

TupleComponentWiseWitness ==
    /\ Compared
    /\ a = VArr(<<VStr(<<NUL>>), VStr(<<ESC>>)>>)
    /\ b = VArr(<<VStr(<<NUL>>), VStr(<<>>)>>)
    /\ cmp = 1

IsProperPrefix(xs, ys) ==
    /\ Len(xs) < Len(ys)
    /\ xs = SubSeq(ys, 1, Len(xs))

\* C4: when array a is a proper prefix of array b, encode(a) is byte-wise
\* below encode(b) and compare(a, b) = -1, whatever b's extra elements.
ArrayPrefixRule ==
    (Compared /\ a.t = "arr" /\ b.t = "arr" /\ IsProperPrefix(a.xs, b.xs)
        /\ ~HasUnsupported(b))
        => /\ ByteOrder(encA, encB) = -1
           /\ cmp = -1

ArrayPrefixRuleWitness ==
    /\ Compared
    /\ a = VArr(<<VStr(<<ESC>>)>>)
    /\ b = VArr(<<VStr(<<ESC>>), MIN>>)
    /\ cmp = -1
    /\ ByteOrder(encA, encB) = -1

\* Position of a variant in MIN < Null < Object < Array < Number < String
\* < Bool < MAX.
Rank(v) ==
    CASE v.t = "min" -> 0
      [] v.t = "null" -> 1
      [] v.t = "obj" -> 2
      [] v.t = "arr" -> 3
      [] v.t = "num" -> 4
      [] v.t = "str" -> 5
      [] v.t = "bool" -> 6
      [] v.t = "max" -> 7

Sign(n) == IF n < 0 THEN -1 ELSE IF n > 0 THEN 1 ELSE 0

Matched(v) == v.t \notin {"undef", "date"}

\* C5: for values of different variants, compare and the byte order of the
\* encodings are decided by the variants' positions alone.
InterVariantOrder ==
    (Compared /\ Matched(a) /\ Matched(b) /\ a.t # b.t)
        => /\ cmp = Sign(Rank(a) - Rank(b))
           /\ (~HasUnsupported(a) /\ ~HasUnsupported(b))
                  => ByteOrder(encA, encB) = Sign(Rank(a) - Rank(b))

InterVariantOrderWitness ==
    /\ Compared
    /\ a = VArr(<<VStr(<<ChA, ChA>>)>>)
    /\ b = VNum(0 - MaxNum)
    /\ cmp = -1
    /\ ByteOrder(encA, encB) = -1

EntrySet(o) == {o.xs[i] : i \in 1..Len(o.xs)}

\* C6: two objects holding the same key/value pairs, inserted in different
\* orders, have the same encoding and compare equal.
ObjectCanonicality ==
    (Compared /\ a.t = "obj" /\ b.t = "obj" /\ EntrySet(a) = EntrySet(b)
        /\ ~HasUnsupported(a))
        => /\ encA = encB
           /\ cmp = 0

ObjectCanonicalityWitness ==
    /\ Compared
    /\ a.t = "obj" /\ b.t = "obj"
    /\ Len(a.xs) = 2
    /\ EntrySet(a) = EntrySet(b)
    /\ a # b
    /\ encA = encB
    /\ cmp = 0

\* C7: MIN compares below and MAX above every non-sentinel JSON value.
SentinelBounds ==
    (Compared /\ IsJson(b))
        => /\ (a = MIN => cmp = -1)
           /\ (a = MAX => cmp = 1)

SentinelBoundsWitness ==
    /\ Compared
    /\ a = MAX
    /\ b = VObj(<<VArr(<<VStr(<<ChA>>), VNull>>)>>)
    /\ cmp = 1

\* The encoding of v under one entry of the registry.
EncodeUsing(reg, e, v) ==
    LET body == EncodingEncode(reg, e.enc, v)
    IN IF body = EncErr THEN EncErr ELSE e.key \o body

Overlapping(reg, v) ==
    Cardinality({i \in 1..Len(reg) : Match(reg[i].enc, v)}) > 1

\* C8: when several registered encodings match a value, Codec.encode uses
\* the one the caller declared first, and Codec.compare selects the same
\* encoding (so values encoded under different prefixes compare as their
\* prefixes do).
FirstMatchDeclaredOrder ==
    (Compared /\ built = "ok" /\ Overlapping(encodings, a))
        => /\ encA = EncodeUsing(encodings, FirstMatch(encodings, a)[1], a)
           /\ (encA # EncErr /\ encB # EncErr /\ Head(encA) # Head(encB))
                  => cmp = compare(<<Head(encA)>>, <<Head(encB)>>)

\* C9 as claimed: encode throws on a value holding, at any depth, a value
\* no encoding matches; compare throws whenever a or b is such a value,
\* also when a and b are the same value.
UnsupportedValueAlways ==
    /\ (Encoded /\ HasUnsupported(a)) => encA = EncErr
    /\ (Compared /\ (~Matched(a) \/ ~Matched(b))) => cmp = CmpErr

\* C9 as the code has it: encode throws on a value holding, at any depth, a
\* value no encoding matches; compare throws when a or b is such a value
\* and a !== b, and returns 0 when a === b.
UnsupportedValue ==
    /\ (Encoded /\ HasUnsupported(a)) => encA = EncErr
    /\ (Compared /\ (~Matched(a) \/ ~Matched(b)))
           => cmp = IF StrictEq(a, b, same) THEN 0 ELSE CmpErr

UnsupportedValueWitness ==
    /\ Compared
    /\ a = VArr(<<VArr(<<VUndef>>)>>)
    /\ b = VDate
    /\ encA = EncErr
    /\ cmp = CmpErr

(***************************************************************************)
(* Frames of an array body, told apart independently of the decoder: a     *)
(* NUL is a terminator when an even number of ESC bytes stands right       *)
(* before it.                                                              *)
(***************************************************************************)
RECURSIVE EscRun(_, _)
EscRun(body, k) ==
    IF k >= 1 /\ body[k] = ESC THEN 1 + EscRun(body, k - 1) ELSE 0

IsTerminator(body, k) == body[k] = NUL /\ EscRun(body, k - 1) % 2 = 0

\* The frames body[i..k-1] that end at a terminator k and start after the
\* previous terminator (or at the start).
Frames(body) ==
    {SubSeq(body, i, k - 1) : <<i, k>> \in
        {p \in (1..Len(body)) \X (1..Len(body)) :
            /\ p[1] <= p[2]
            /\ IsTerminator(body, p[2])
            /\ (p[1] = 1 \/ IsTerminator(body, p[1] - 1))
            /\ \A m \in p[1]..(p[2] - 1) : ~IsTerminator(body, m)}}

Registered(reg) == {reg[i].key : i \in 1..Len(reg)}

\* A string Codec.decode has no encoding for: empty, or starting with a
\* byte that is no registered prefix.
Offending(reg, s) == s = <<>> \/ <<Head(s)>> \notin Registered(reg)

\* C10: decode throws the missing-encoding error on an empty string and on
\* a string whose first byte is no registered prefix; it throws too when
\* such a string is an element frame of an array body; otherwise it returns
\* what the encoding registered under the prefix decodes from the rest.
UnknownPrefix ==
    pc = "parsed" =>
        /\ Offending(encodings, str) => dec = VErr(ErrMissing)
        /\ (str # <<>> /\ Head(str) = PArray
              /\ \E f \in Frames(Tail(str)) : Offending(encodings, Unescape(f)))
               => IsErr(dec)
        /\ ~Offending(encodings, str)
               => dec = EncodingDecode(encodings,
                                       FindPrefix(encodings, <<Head(str)>>)[1].enc,
                                       Tail(str))

UnknownPrefixWitness ==
    /\ pc = "parsed"
    /\ str = <<PArray, PNull, NUL, NUL>>
    /\ dec = VErr(ErrMissing)

\* C11: new Codec(encodings) throws exactly when some key of encodings is
\* not one byte long (empty, or two or more characters); when it succeeds
\* every registered prefix is a single byte and the prefixes are pairwise
\* distinct.
MalformedRegistry ==
    pc # "new" =>
        /\ built = "throw"
              <=> (\E k \in Registered(encodings) : Len(k) = 0 \/ Len(k) >= 2)
        /\ built = "ok"
              => /\ \A k \in Registered(encodings) :
                        Len(k) = 1 /\ k[1] \in 0..255
                 /\ \A i, j \in 1..Len(encodings) :
                        i # j => encodings[i].key # encodings[j].key

MalformedRegistryWitness ==
    /\ pc = "failed"
    /\ built = "throw"
    /\ Len(encodings) = 2
    /\ encodings[1].key = <<PNull>>
    /\ encodings[2].key = <<>>

\* The codec of the other object form.
OtherForm(reg) == IF reg = jsonCodec THEN jsonCodecLegacy ELSE jsonCodec

\* C12: for plain objects a and b, the byte order of their encodings under
\* the flat object form, the byte order of their encodings under the paired
\* (legacy) form at the same prefix, and ObjectEncoding.compare(a, b) are
\* the same sign.
FlatPairedSameOrder ==
    (Compared /\ a.t = "obj" /\ b.t = "obj" /\ IsJson(a) /\ IsJson(b)
        /\ encodings \in {jsonCodec, jsonCodecLegacy})
        => /\ ByteOrder(encA, encB)
                 = ByteOrder(Encode(OtherForm(encodings), a),
                             Encode(OtherForm(encodings), b))
           /\ ByteOrder(encA, encB) = ObjectCompare(encodings, a, b, shared)
           /\ cmp = ObjectCompare(encodings, a, b, shared)

FlatPairedSameOrderWitness ==
    /\ Compared
    /\ encodings = jsonCodecLegacy
    /\ a = VObj(<<VArr(<<VStr(<<ESC>>), VStr(<<NUL>>)>>),
                  VArr(<<VStr(<<ChA>>), VStr(<<NUL>>)>>)>>)
    /\ b = VObj(<<VArr(<<VStr(<<ChA, NUL>>),
                         VObj(<<VArr(<<VStr(<<ChA>>), VStr(<<ESC>>)>>)>>)>>)>>)
    /\ encA # Encode(jsonCodec, a)
    /\ ByteOrder(encA, encB) = -1
    /\ cmp = -1

\* One pass over the bytes: ESC becomes ESC ESC, NUL becomes ESC NUL, any
\* other byte stays.
RECURSIVE Substitute(_)
Substitute(s) ==
    IF s = <<>> THEN <<>>
    ELSE (IF Head(s) = ESC THEN <<ESC, ESC>>
          ELSE IF Head(s) = NUL THEN <<ESC, NUL>>
          ELSE <<Head(s)>>) \o Substitute(Tail(s))

\* The frames of the elements, one after the other.
RECURSIVE WireBody(_, _)
WireBody(reg, xs) ==
    IF xs = <<>> THEN <<>>
    ELSE Substitute(Encode(reg, Head(xs))) \o <<NUL>> \o WireBody(reg, Tail(xs))

\* C13: jsonCodec.encode of an array is the prefix "d" followed by, for each
\* element in order, the element's encoding with every ESC replaced by
\* ESC ESC and every NUL by ESC NUL in one pass over its bytes, followed by
\* one NUL; the body of the empty array is empty.
ArrayWireFormat ==
    (Encoded /\ a.t = "arr" /\ ~HasUnsupported(a))
        => /\ encA = <<PArray>> \o WireBody(encodings, a.xs)
           /\ a.xs = <<>> => encA = <<PArray>>

ArrayWireFormatWitness ==
    /\ Encoded
    /\ a = VArr(<<VStr(<<NUL>>), VStr(<<ESC>>)>>)
    /\ encA = <<PArray, PString, ESC, NUL, NUL, PString, ESC, ESC, NUL>>
    /\ b = VArr(<<VStr(<<ChA, ChA>>)>>)
    /\ encB = <<PArray, PString, ChA, ChA, NUL>>

\* v is a string, or an array of such values.
RECURSIVE StringTree(_)
StringTree(v) ==
    \/ v.t = "str"
    \/ v.t = "arr" /\ \A i \in 1..Len(v.xs) : StringTree(v.xs[i])

\* The complete frames of body from position start on, in order.
RECURSIVE FrameSeq(_, _)
FrameSeq(body, start) ==
    LET ts == {k \in start..Len(body) : IsTerminator(body, k)}
    IN IF ts = {} THEN <<>>
       ELSE LET k == CHOOSE t \in ts : \A m \in ts : t <= m
            IN <<SubSeq(body, start, k - 1)>> \o FrameSeq(body, k + 1)

\* C14: for an array of strings holding NUL and ESC anywhere, and for such
\* arrays nested in arrays, the body of the encoding has exactly one frame
\* per element, each frame un-escapes to the encoding of its element, and
\* decoding the encoding gives back the array.
EscapeInvertible ==
    (pc = "decoded" /\ a.t = "arr" /\ StringTree(a))
        => LET frames == FrameSeq(Tail(encA), 1)
           IN /\ Len(frames) = Len(a.xs)
              /\ \A i \in 1..Len(frames) :
                     Unescape(frames[i]) = Encode(encodings, a.xs[i])
              /\ dec = a

EscapeInvertibleWitness ==
    /\ pc = "decoded"
    /\ a = VArr(<<VArr(<<VStr(<<ESC, NUL>>)>>)>>)
    /\ encA = <<PArray>>
                 \o Substitute(<<PArray>>
                                  \o Substitute(<<PString, ESC, NUL>>) \o <<NUL>>)
                 \o <<NUL>>
    /\ dec = a

\* The position of the last terminator of body, 0 when it has none.
LastTerminator(body) ==
    LET ts == {k \in 1..Len(body) : IsTerminator(body, k)}
    IN IF ts = {} THEN 0 ELSE CHOOSE t \in ts : \A m \in ts : m <= t

\* The bytes after the last terminator.
Trailing(body) == SubSeq(body, LastTerminator(body) + 1, Len(body))

\* C15: ArrayEncoding.decode of a body with bytes after its last terminator
\* (a dangling ESC among them) throws nothing for those bytes: it returns
\* the decoded elements of the complete frames, the empty array when there
\* is no complete frame, and in every case what it returns for the body cut
\* after its last terminator.
LenientTrailing ==
    (pc = "parsed" /\ str # <<>> /\ Head(str) = PArray
        /\ Trailing(Tail(str)) # <<>>)
        => LET body == Tail(str)
               frames == FrameSeq(body, 1)
               elems == [i \in 1..Len(frames) |->
                            Decode(encodings, Unescape(frames[i]))]
           IN /\ (\A i \in 1..Len(frames) : ~IsErr(elems[i]))
                     => dec = VArr(elems)
              /\ frames = <<>> => dec = VArr(<<>>)
              /\ dec = Decode(encodings,
                              <<PArray>> \o SubSeq(body, 1, LastTerminator(body)))

LenientTrailingWitness ==
    /\ pc = "parsed"
    /\ str = <<PArray, PNull, NUL, ESC>>
    /\ dec = VArr(<<VNull>>)

\* Array xs is a tuple prefix closed by one last element, and array ys
\* extends the same prefix by a non-sentinel element and any further ones.
BoundsExtension(xs, ys) ==
    /\ xs # <<>>
    /\ Len(ys) >= Len(xs)
    /\ SubSeq(xs, 1, Len(xs) - 1) = SubSeq(ys, 1, Len(xs) - 1)
    /\ ys[Len(xs)] \notin {MIN, MAX}

\* C16: for a tuple prefix t and an array [...t, v, ...rest] with v not a
\* sentinel, the encoding of [...t, MIN] is byte-wise below and the encoding
\* of [...t, MAX] byte-wise above the encoding of [...t, v, ...rest].
SentinelsBoundExtensions ==
    (Encoded /\ a.t = "arr" /\ b.t = "arr" /\ BoundsExtension(a.xs, b.xs)
        /\ ~HasUnsupported(a) /\ ~HasUnsupported(b))
        => /\ a.xs[Len(a.xs)] = MIN => ByteOrder(encA, encB) = -1
           /\ a.xs[Len(a.xs)] = MAX => ByteOrder(encA, encB) = 1

SentinelsBoundExtensionsWitness ==
    /\ Encoded
    /\ a = VArr(<<VStr(<<NUL>>), MIN>>)
    /\ b = VArr(<<VStr(<<NUL>>), VNull, MIN>>)
    /\ encA = <<PArray, PString, ESC, NUL, NUL, ESC, NUL, NUL>>
    /\ ByteOrder(encA, encB) = -1

====
